---- MODULE Spec2Model ----
(***************************************************************************)
(* Model of the host side of GenerateHologramCUDA.cu: the process-wide     *)
(* session state (device pointers, size globals, correction flags), and    *)
(* the five exported entry points startCUDAandSLM, stopCUDAandSLM,         *)
(* Corrections, GenerateHologram and GetAmps.                              *)
(*                                                                         *)
(* A device pointer is "null" (never set, or reset to NULL), "live" (it    *)
(* names an allocation of the current device context) or "freed" (it still *)
(* holds the address of an allocation that cudaFree or cudaDeviceReset     *)
(* released: a dangling pointer).                                          *)
(*                                                                         *)
(* Every entry point is one action.  The action records, in program order, *)
(* the device and driver operations the call issues (call.ops).  The host  *)
(* code never looks at the return value of an operation before issuing the *)
(* next one, so the sequence depends only on the arguments and the state   *)
(* at entry.  At most one operation per call is chosen to fail             *)
(* (call.failAt, 0 for none); operations on a dangling pointer are         *)
(* undefined and are covered by that choice; a copy of a positive number   *)
(* of bytes through a NULL pointer and a launch with an empty grid always  *)
(* fail.  cudaMalloc is taken to succeed (out-of-memory is not modelled).  *)
(***************************************************************************)
EXTENDS Integers, Sequences, FiniteSets, TLC

VARIABLES
    buf,                  \* device pointer name -> "null" | "live" | "freed"
    ApplyLUT_b, EnableSLM_b, UseAberrationCorr_b, UseLUTPol_b,
    N_LUTPolCoeff,
    data_w, N_pixels, n_blocks_Phi,
    memsize_spotsf, memsize_SLMf, memsize_SLMuc, memsize_SLMcc,
    status,               \* the value the last call returned (0 = cudaSuccess)
    session,              \* history: "none" | "active" | "stopped"
    slm,                  \* history of the driver: "off" | "on" | "shutdown"
    leaked,               \* history: a live allocation lost its only pointer
    mem,                  \* what the session buffers hold (see Content)
    CUDAmessage,          \* the messages strcat has appended, by function name
    hwAtStart,            \* history: EnableSLM of the last start ("none" before)
    call                  \* record of the last call: arguments and operations

vars == <<buf, ApplyLUT_b, EnableSLM_b, UseAberrationCorr_b, UseLUTPol_b,
          N_LUTPolCoeff, data_w, N_pixels, n_blocks_Phi,
          memsize_spotsf, memsize_SLMf, memsize_SLMuc, memsize_SLMcc,
          status, session, slm, leaked, mem, CUDAmessage, hwAtStart, call>>

sizeVars == <<data_w, N_pixels, n_blocks_Phi, memsize_SLMf, memsize_SLMuc, memsize_SLMcc>>
flagVars == <<ApplyLUT_b, EnableSLM_b, UseAberrationCorr_b, UseLUTPol_b, N_LUTPolCoeff>>

----------------------------------------------------------------------------
(* Sizes.  BLOCK_SIZE and SLM_SIZE come from GenerateHologramCUDA.h; the   *)
(* iteration capacity (1000 in the source) and the query batch (512 in the *)
(* source) are scaled down.  All four are bounds of the model.             *)

BLOCK_SIZE == 3

SLM_SIZE == 2

MaxIterations == 2

BatchSize == 2

SizeofFloat == 4

SizeofUChar == 1

SizeofComplex == 8

SizeofInt == 4

LUTEntries == 256

MaxPolCoeff == 120

Ncoeff == <<20, 35, 56, 84, 120>>

----------------------------------------------------------------------------
(* Device pointers *)

SpotBufs == {"d_x", "d_y", "d_z", "d_I"}

\* the sixteen buffers startCUDAandSLM allocates unconditionally, in order
StartAllocs ==
    << "d_x", "d_y", "d_z", "d_I", "d_weights", "d_amps",
       "d_spotRe_f", "d_spotIm_f", "d_pSLM_f", "d_pSLMstart_f", "d_pSLM_uc",
       "d_spot_index", "d_FFTd_cc", "d_FFTo_cc", "d_SLM_cc", "d_weights_start" >>

\* the twelve buffers stopCUDAandSLM passes to cudaFree unconditionally, in order
StopFrees ==
    << "d_x", "d_y", "d_z", "d_I", "d_weights", "d_amps",
       "d_pSLM_f", "d_pSLMstart_f", "d_pSLM_uc",
       "d_FFTd_cc", "d_FFTo_cc", "d_SLM_cc" >>

OptBufs == {"d_LUT_uc", "d_AberrationCorr_f", "d_LUTPolCoeff_f"}

\* declared at file scope and used by the Fourier path, never allocated here
NeverAllocated == {"d_aLaserFFT", "d_LUT_coeff"}

Range(s) == {s[i] : i \in 1..Len(s)}

Buffers == Range(StartAllocs) \cup OptBufs \cup NeverAllocated

----------------------------------------------------------------------------
(* Operation records *)

\* k: kind; b: the device pointers passed; w: those the operation may write;
\* n: bytes (spots for a kernel); g: grid; h: host buffer; q: the quantize flag of
\* PropagateToSLM_Fresnel; l: iteration (offset for a query dispatch)
Op(k, name, b, w, n, g, h, q, l) ==
    [k |-> k, name |-> name, b |-> b, w |-> w, n |-> n, g |-> g, h |-> h, q |-> q, l |-> l]

Malloc(p, n)      == Op("malloc", "cudaMalloc", {p}, {p}, n, 0, "", FALSE, -1)
Free(p)           == Op("free", "cudaFree", {p}, {}, 0, 0, "", FALSE, -1)
H2D(p, h, n)      == Op("h2d", "cudaMemcpy", {p}, {p}, n, 0, h, FALSE, -1)
D2H(h, p, n)      == Op("d2h", "cudaMemcpy", {p}, {}, n, 0, h, FALSE, -1)
D2D(p, s, n)      == Op("d2d", "cudaMemcpy", {p, s}, {p}, n, 0, "", FALSE, -1)
Memset(p, n)      == Op("memset", "cudaMemset", {p}, {p}, n, 0, "", FALSE, -1)
Sync              == Op("sync", "cudaDeviceSynchronize", {}, {}, 0, 0, "", FALSE, -1)
\* the kernels are defined in other files: a kernel may write through any pointer
\* it is given
Kernel(name, g, b, n, q, l) == Op("kernel", name, b, b, n, g, "", q, l)
FFT(src, dst, l)  == Op("fft", "cufftExecC2C", {src, dst}, {dst}, 0, 0, "", FALSE, l)
Driver(name, h)   == Op("driver", name, {}, {}, 0, 0, h, FALSE, -1)
Ctx(name)         == Op("ctx", name, {}, {}, 0, 0, "", FALSE, -1)
Plan(name)        == Op("plan", name, {}, {}, 0, 0, "", FALSE, -1)

\* operations whose failure the device reports
DeviceKinds == {"free", "h2d", "d2h", "d2d", "memset", "kernel", "fft", "ctx"}

CopyKinds == {"h2d", "d2h", "d2d", "memset"}

\* an operation that fails whatever the device does
MustFail(o, b) ==
    \/ o.k \in CopyKinds /\ o.n > 0 /\ \E p \in o.b \cap DOMAIN b : b[p] = "null"
    \/ o.k = "kernel" /\ o.g <= 0

FailPoints(ops) == {0} \cup {i \in 1..Len(ops) : ops[i].k \in DeviceKinds}

Failed(ops, failAt, b) ==
    {i \in 1..Len(ops) : i = failAt \/ MustFail(ops[i], b)}

StatusOf(ops, failAt, b) == IF Failed(ops, failAt, b) = {} THEN 0 ELSE 1

----------------------------------------------------------------------------
(* Contents of the session buffers.  What a buffer holds is named by where *)
(* it came from: <<"none">> (no allocation), <<"uninit">> (as cudaMalloc   *)
(* leaves it), <<"zero">> (cudaMemset), <<"host", f, h>> (copied from host *)
(* buffer h of a call of f), <<"dev", f, k>> (written by kernel or         *)
(* transform k of a call of f).                                            *)

ContentBufs ==
    {"d_pSLM_f", "d_pSLMstart_f", "d_pSLM_uc", "d_SLM_cc", "d_weights", "d_weights_start"}

NoMem == [p \in ContentBufs |-> <<"none">>]

\* what operation o of a call of fn writes, m being the contents before it
Content(o, fn, m) ==
    CASE o.k = "malloc" -> <<"uninit">>
      [] o.k = "memset" -> <<"zero">>
      [] o.k = "h2d" -> <<"host", fn, o.h>>
      [] o.k = "d2d" -> (LET s == CHOOSE x \in o.b \ o.w : TRUE
                         IN  IF s \in ContentBufs THEN m[s] ELSE <<"dev", fn, s>>)
      [] OTHER -> <<"dev", fn, o.name>>

\* a failed operation and a copy of 0 bytes write nothing; b is the pointer state;
\* track is the set of buffers whose contents the specification follows (the
\* contents never influence which operations a call issues)
Effect(o, fn, m, b, failed, track) ==
    [p \in ContentBufs |->
        IF p \in o.w \cap track /\ b[p] = "live" /\ ~failed /\ (o.k \in CopyKinds => o.n > 0)
        THEN Content(o, fn, m) ELSE m[p]]

\* the contents after the first n operations of a call
RECURSIVE MemAfter(_, _, _, _, _, _, _)
MemAfter(ops, n, fn, m, b, bad, track) ==
    IF n = 0 \/ track = {} THEN m
    ELSE Effect(ops[n], fn, MemAfter(ops, n - 1, fn, m, b, bad, track), b, n \in bad, track)

----------------------------------------------------------------------------
(* CUDAmessage: a char[100] that is zero at program start.  Every entry    *)
(* point that finds an error appends "CUDA says: ", the text of the error  *)
(* and " in function '<name>'\n" with strcat.  The variable holds the      *)
(* names of the functions whose messages were appended; nothing is         *)
(* appended in the model once the text has run past the array.             *)

MsgCapacity == 100

\* the length of the text cudaGetErrorString returns ("invalid argument")
ErrTextLen == 16

FnNameLen ==
    [f \in {"startCUDAandSLM", "stopCUDAandSLM", "Corrections", "GenerateHologram", "GetAmps"} |->
        CASE f = "startCUDAandSLM" -> 15 [] f = "stopCUDAandSLM" -> 14
          [] f = "Corrections" -> 11 [] f = "GenerateHologram" -> 16 [] f = "GetAmps" -> 7]

\* strlen of "CUDA says: " + the error text + " in function '" + name + "'\n"
MsgChars(f) == 11 + ErrTextLen + 14 + FnNameLen[f] + 2

RECURSIVE TextChars(_)
TextChars(msgs) == IF msgs = << >> THEN 0 ELSE MsgChars(Head(msgs)) + TextChars(Tail(msgs))

\* the text and its terminating 0 do not fit the array
Overrun(msgs) == TextChars(msgs) + 1 > MsgCapacity

\* if (status) { strcat(CUDAmessage, ...); ... }
Report(f, st) ==
    IF st # 0 /\ ~Overrun(CUDAmessage) THEN Append(CUDAmessage, f) ELSE CUDAmessage

NoCall ==
    [fn |-> "none", N_spots |-> 0, N_iterations |-> 0, method |-> 0,
     N_used |-> 0, methodUsed |-> 0,
     PolOrder |-> 0, UseAberrationCorr |-> FALSE, ApplyLUT |-> FALSE, UseLUTPol |-> FALSE,
     preAb |-> "null", prePol |-> "null", preLeaked |-> FALSE,
     pts |-> <<>>, pattern |-> 0, h_amps |-> <<>>,
     preMem |-> NoMem,
     ops |-> <<>>, failAt |-> 0]

----------------------------------------------------------------------------
Init ==
    /\ buf = [p \in Buffers |-> "null"]
    /\ ApplyLUT_b = FALSE /\ EnableSLM_b = FALSE
    /\ UseAberrationCorr_b = FALSE /\ UseLUTPol_b = FALSE
    /\ N_LUTPolCoeff = 0
    /\ data_w = 0 /\ N_pixels = 0 /\ n_blocks_Phi = 0
    /\ memsize_spotsf = 0 /\ memsize_SLMf = 0 /\ memsize_SLMuc = 0 /\ memsize_SLMcc = 0
    /\ status = 0
    /\ session = "none"
    /\ slm = "off"
    /\ leaked = FALSE
    /\ mem = NoMem
    /\ CUDAmessage = << >>
    /\ hwAtStart = "none"
    /\ call = NoCall

----------------------------------------------------------------------------
(* startCUDAandSLM *)

MallocSeq(names, size) == [i \in 1..Len(names) |-> Malloc(names[i], size[names[i]])]

StartSize(w) ==
    LET np == w * w IN
    [p \in Range(StartAllocs) |->
        CASE p \in SpotBufs \cup {"d_spotRe_f", "d_spotIm_f"} -> BLOCK_SIZE * SizeofFloat
          [] p = "d_weights" -> BLOCK_SIZE * (MaxIterations + 1) * SizeofFloat
          [] p = "d_amps" -> BLOCK_SIZE * MaxIterations * SizeofFloat
          [] p \in {"d_pSLM_f", "d_pSLMstart_f"} -> np * SizeofFloat
          [] p = "d_pSLM_uc" -> np * SizeofUChar
          [] p = "d_spot_index" -> BLOCK_SIZE * SizeofInt
          [] p \in {"d_FFTd_cc", "d_FFTo_cc", "d_SLM_cc"} -> np * SizeofComplex
          [] p = "d_weights_start" -> BLOCK_SIZE * SizeofFloat]

StartOps(EnableSLM) ==
    LET sz == StartSize(SLM_SIZE)
        np == SLM_SIZE * SLM_SIZE
    IN  << Ctx("cudaSetDevice"), Ctx("cudaGetDeviceProperties") >>
        \o MallocSeq(SubSeq(StartAllocs, 1, 11), sz)
        \o << Memset("d_pSLM_f", np * SizeofFloat) >>
        \o MallocSeq(SubSeq(StartAllocs, 12, 15), sz)
        \o << Plan("cufftPlan2d") >>
        \o MallocSeq(SubSeq(StartAllocs, 16, 16), sz)
        \o << H2D("d_weights_start", "h_weights", BLOCK_SIZE * SizeofFloat) >>
        \o (IF EnableSLM
            THEN << Driver("InitalizeSLM", "h_LUT_uc"),
                    Malloc("d_LUT_uc", LUTEntries),
                    H2D("d_LUT_uc", "h_LUT_uc", LUTEntries),
                    Driver("SetPower", "") >>
            ELSE << >>)

\* the pointers after the operations of a call: cudaMalloc overwrites the pointer,
\* cudaFree releases what a live pointer names and leaves the pointer as it is
AllocatedBy(ops) == UNION {ops[i].b : i \in {j \in 1..Len(ops) : ops[j].k = "malloc"}}

startCUDAandSLM(EnableSLM, lutRet, faults, track) ==
    \E ops \in {StartOps(EnableSLM)} :
    \E failAt \in FailPoints(ops) \cap faults :
    \E b1 \in {[p \in Buffers |-> IF p \in AllocatedBy(ops) THEN "live" ELSE buf[p]]} :
        /\ buf' = b1
        /\ leaked' = (leaked \/ \E p \in AllocatedBy(ops) : buf[p] = "live")
        /\ data_w' = SLM_SIZE
        /\ N_pixels' = SLM_SIZE * SLM_SIZE
        /\ memsize_spotsf' = BLOCK_SIZE * SizeofFloat
        /\ memsize_SLMf' = SLM_SIZE * SLM_SIZE * SizeofFloat
        /\ memsize_SLMuc' = SLM_SIZE * SLM_SIZE * SizeofUChar
        /\ memsize_SLMcc' = SLM_SIZE * SLM_SIZE * SizeofComplex
        /\ n_blocks_Phi' = (SLM_SIZE * SLM_SIZE) \div BLOCK_SIZE
                           + (IF (SLM_SIZE * SLM_SIZE) % BLOCK_SIZE = 0 THEN 0 ELSE 1)
        /\ EnableSLM_b' = EnableSLM
        /\ ApplyLUT_b' = (IF EnableSLM THEN lutRet ELSE FALSE)
        /\ slm' = (IF EnableSLM THEN "on" ELSE slm)
        /\ status' = StatusOf(ops, failAt, b1)
        /\ mem' = MemAfter(ops, Len(ops), "startCUDAandSLM", mem, b1,
                         Failed(ops, failAt, b1), track)
        /\ CUDAmessage' = Report("startCUDAandSLM", StatusOf(ops, failAt, b1))
        /\ hwAtStart' = (IF EnableSLM THEN "enabled" ELSE "disabled")
        /\ session' = "active"
        /\ call' = [NoCall EXCEPT !.fn = "startCUDAandSLM", !.ops = ops, !.failAt = failAt,
                                  !.preLeaked = leaked, !.preMem = mem]
        /\ UNCHANGED <<UseAberrationCorr_b, UseLUTPol_b, N_LUTPolCoeff>>

----------------------------------------------------------------------------
(* stopCUDAandSLM *)

FreeSeq(names) == [i \in 1..Len(names) |-> Free(names[i])]

StopOps ==
    FreeSeq(StopFrees)
    \o << Plan("cufftDestroy") >>
    \o (IF ApplyLUT_b THEN << Free("d_LUT_uc") >> ELSE << >>)
    \o (IF UseAberrationCorr_b THEN << Free("d_AberrationCorr_f") >> ELSE << >>)
    \o (IF UseLUTPol_b THEN << Free("d_LUTPolCoeff_f") >> ELSE << >>)
    \o << Ctx("cudaDeviceReset") >>
    \o (IF EnableSLM_b THEN << Driver("ShutDownSLM", "") >> ELSE << >>)

\* the pointers stopCUDAandSLM resets to NULL
StopNulled ==
    (IF ApplyLUT_b THEN {"d_LUT_uc"} ELSE {})
    \cup (IF UseAberrationCorr_b THEN {"d_AberrationCorr_f"} ELSE {})
    \cup (IF UseLUTPol_b THEN {"d_LUTPolCoeff_f"} ELSE {})

stopCUDAandSLM(faults) ==
    \E ops \in {StopOps} :
    \* the status is read before cudaDeviceReset is called
    \E seen \in {SubSeq(ops, 1, Len(StopFrees) + 1 + Cardinality(StopNulled))} :
    \E failAt \in FailPoints(seen) \cap faults :
        \* cudaDeviceReset releases every allocation of the context: whatever
        \* pointer is not reset to NULL is left dangling
        /\ buf' = [p \in Buffers |->
                     IF p \in StopNulled THEN "null"
                     ELSE IF buf[p] = "live" THEN "freed" ELSE buf[p]]
        /\ leaked' = FALSE
        /\ status' = StatusOf(seen, failAt, buf)
        \* cudaDeviceReset: no allocation survives
        /\ mem' = NoMem
        /\ CUDAmessage' = Report("stopCUDAandSLM", StatusOf(seen, failAt, buf))
        /\ slm' = (IF EnableSLM_b THEN "shutdown" ELSE slm)
        /\ session' = "stopped"
        /\ call' = [NoCall EXCEPT !.fn = "stopCUDAandSLM", !.ops = ops, !.failAt = failAt,
                                  !.preLeaked = leaked, !.preMem = mem]
        /\ UNCHANGED <<sizeVars, flagVars, memsize_spotsf, hwAtStart>>

----------------------------------------------------------------------------
(* Corrections *)

\* variant: the order is not checked
PolAccepted_NoRangeCheck(UseLUTPol, PolOrder) == UseLUTPol

\* UseLUTPol_b after the order check
PolAccepted(UseLUTPol, PolOrder) ==
    IF 3 <= PolOrder /\ PolOrder <= 7 THEN UseLUTPol ELSE FALSE

\* N_LUTPolCoeff after the order check (Ncoeff is 0-based in the source)
PolCoeffCount(PolOrder) ==
    IF 3 <= PolOrder /\ PolOrder <= 7 THEN Ncoeff[PolOrder - 3 + 1] ELSE N_LUTPolCoeff

\* variant: the table is allocated whenever it is enabled, resident or not
ToggleOps_AlwaysAllocates(p, use, h, n, c) ==
    IF use
    THEN << Malloc(p, n), H2D(p, h, c) >>
    ELSE IF buf[p] # "null" THEN << Free(p) >> ELSE << >>

\* the operations of one optional table: p is its pointer, use the flag after the
\* order check, n the bytes allocated, c the bytes copied
ToggleOps(p, use, h, n, c) ==
    IF use
    THEN (IF buf[p] = "null" THEN << Malloc(p, n) >> ELSE << >>) \o << H2D(p, h, c) >>
    ELSE IF buf[p] # "null" THEN << Free(p) >> ELSE << >>

\* the pointer after those operations; zeroAlloc is what cudaMalloc stores for a
\* request of 0 bytes (memsize_SLMf is 0 until startCUDAandSLM has run)
ToggleBuf(p, use, n, zeroAlloc) ==
    IF use
    THEN (IF buf[p] = "null" THEN (IF n = 0 THEN zeroAlloc ELSE "live") ELSE buf[p])
    ELSE "null"

Corrections(UseAberrationCorr, ApplyLUT, UseLUTPol, PolOrder, faults, zeroAlloc) ==
    \E usePol \in {PolAccepted(UseLUTPol, PolOrder)}, ncoef \in {PolCoeffCount(PolOrder)} :
    \E abOps \in {ToggleOps("d_AberrationCorr_f", UseAberrationCorr, "h_AberrationCorr",
                            memsize_SLMf, memsize_SLMf)} :
    \E polOps \in {ToggleOps("d_LUTPolCoeff_f", usePol, "h_LUTPolCoeff",
                             MaxPolCoeff * SizeofFloat, ncoef * SizeofFloat)} :
    \E ops \in {abOps \o polOps} :
    \E failAt \in FailPoints(ops) \cap faults :
    \E b1 \in {[buf EXCEPT
                 !["d_AberrationCorr_f"] =
                     ToggleBuf("d_AberrationCorr_f", UseAberrationCorr, memsize_SLMf, zeroAlloc),
                 !["d_LUTPolCoeff_f"] =
                     ToggleBuf("d_LUTPolCoeff_f", usePol, MaxPolCoeff * SizeofFloat, zeroAlloc)]} :
    \E bad \in {Failed(ops, failAt, b1)} :
        /\ (zeroAlloc = "null" =>
               UseAberrationCorr /\ buf["d_AberrationCorr_f"] = "null" /\ memsize_SLMf = 0)
        /\ buf' = b1
        \* each flag ends as the negation of what its cudaMemcpy returned
        /\ UseAberrationCorr_b' = (UseAberrationCorr /\ Len(abOps) \notin bad)
        /\ ApplyLUT_b' = ApplyLUT
        /\ UseLUTPol_b' = (usePol /\ Len(ops) \notin bad)
        /\ N_LUTPolCoeff' = ncoef
        /\ status' = (IF bad = {} THEN 0 ELSE 1)
        /\ UNCHANGED mem
        /\ CUDAmessage' = Report("Corrections", IF bad = {} THEN 0 ELSE 1)
        /\ call' = [NoCall EXCEPT !.fn = "Corrections", !.ops = ops, !.failAt = failAt,
                                  !.PolOrder = PolOrder,
                                  !.UseAberrationCorr = UseAberrationCorr,
                                  !.ApplyLUT = ApplyLUT, !.UseLUTPol = UseLUTPol,
                                  !.preAb = buf["d_AberrationCorr_f"],
                                  !.prePol = buf["d_LUTPolCoeff_f"],
                                  !.preLeaked = leaked, !.preMem = mem]
        /\ UNCHANGED <<EnableSLM_b, sizeVars, memsize_spotsf, session, slm, leaked, hwAtStart>>

PolOrders == 2..8

----------------------------------------------------------------------------
(* GenerateHologram *)

\* variant: the spot count is not truncated to the capacity
SpotsUsed_NoTruncation(N_spots) == N_spots

\* N_spots after the capacity check
SpotsUsed(N_spots) == IF N_spots > BLOCK_SIZE THEN BLOCK_SIZE ELSE N_spots

\* variant: fewer than 3 spots do not force method 0
MethodUsed_NoSmallSetOverride(N_spots, method) == method

\* variant: more than BLOCK_SIZE spots force method 0 as well
MethodUsed_OverflowOverride(N_spots, method) ==
    IF N_spots > BLOCK_SIZE \/ N_spots < 3 THEN 0 ELSE method

\* method after the capacity check and the small-set check
MethodUsed(N_spots, method) ==
    IF N_spots > BLOCK_SIZE THEN method
    ELSE IF N_spots < 3 THEN 0 ELSE method

\* the iterations the loops of case 1 and case 2 run
IterationsRun(N_iterations) == IF N_iterations > 0 THEN N_iterations ELSE 0

CorrBufs == {"d_LUT_uc", "d_AberrationCorr_f", "d_LUTPolCoeff_f"}

SpotCopies(N) ==
    << H2D("d_x", "x_spots", N * SizeofFloat),
       H2D("d_y", "y_spots", N * SizeofFloat),
       H2D("d_z", "z_spots", N * SizeofFloat),
       H2D("d_I", "I_spots", N * SizeofFloat) >>

LensesAndPrismsOps(N) ==
    << Kernel("LensesAndPrisms", n_blocks_Phi,
              SpotBufs \cup {"d_pSLM_uc"} \cup CorrBufs, N, FALSE, -1),
       Sync,
       Kernel("checkAmplitudes", N, {"d_x", "d_y", "d_z", "d_pSLM_uc", "d_amps"}, N, FALSE, -1),
       Sync,
       D2H("h_pSLM_uc", "d_pSLM_uc", memsize_SLMuc),
       D2H("h_weights", "d_amps", N * SizeofFloat) >>

\* variant: every pass quantizes into the output pattern
FresnelIteration_QuantizeEveryPass(N, N_iterations, l) ==
    << Kernel("PropagateToSpotPositions_Fresnel", N,
              {"d_x", "d_y", "d_z", "d_pSLM_f", "d_spotRe_f", "d_spotIm_f"}, N, FALSE, l),
       Sync,
       Kernel("PropagateToSLM_Fresnel", 512,
              SpotBufs \cup {"d_spotRe_f", "d_spotIm_f", "d_pSLM_f", "d_weights",
                             "d_pSLMstart_f", "d_amps", "d_pSLM_uc"} \cup CorrBufs,
              N, TRUE, l),
       Sync >>

FresnelIteration(N, N_iterations, l) ==
    << Kernel("PropagateToSpotPositions_Fresnel", N,
              {"d_x", "d_y", "d_z", "d_pSLM_f", "d_spotRe_f", "d_spotIm_f"}, N, FALSE, l),
       Sync,
       Kernel("PropagateToSLM_Fresnel", 512,
              SpotBufs \cup {"d_spotRe_f", "d_spotIm_f", "d_pSLM_f", "d_weights",
                             "d_pSLMstart_f", "d_amps", "d_pSLM_uc"} \cup CorrBufs,
              N, l = N_iterations - 1, l),
       Sync >>

\* for (l = 0; l < N_iterations; l++): four operations per pass
FresnelLoop(N, N_iterations) ==
    [i \in 1..(IterationsRun(N_iterations) * 4) |->
        FresnelIteration(N, N_iterations, (i - 1) \div 4)[((i - 1) % 4) + 1]]

\* variant: the working weights are seeded from the h_weights argument
FresnelOps_SeedsFromCaller(N, N_iterations) ==
    << H2D("d_weights", "h_weights", N * SizeofFloat),
       D2D("d_pSLMstart_f", "d_pSLM_f", memsize_SLMf),
       Sync >>
    \o FresnelLoop(N, N_iterations)
    \o << Sync,
          D2H("h_pSLM_uc", "d_pSLM_uc", memsize_SLMuc),
          D2H("h_weights", "d_amps", N * N_iterations * SizeofFloat) >>

FresnelOps(N, N_iterations) ==
    << D2D("d_weights", "d_weights_start", N * SizeofFloat),
       D2D("d_pSLMstart_f", "d_pSLM_f", memsize_SLMf),
       Sync >>
    \o FresnelLoop(N, N_iterations)
    \o << Sync,
          D2H("h_pSLM_uc", "d_pSLM_uc", memsize_SLMuc),
          D2H("h_weights", "d_amps", N * N_iterations * SizeofFloat) >>

FourierIteration(N, l) ==
    << FFT("d_SLM_cc", "d_FFTo_cc", l),
       Sync,
       Kernel("ReplaceAmpsSpots_FFT", 1,
              {"d_FFTo_cc", "d_FFTd_cc", "d_spot_index", "d_amps", "d_weights"}, N, FALSE, l),
       Sync,
       FFT("d_FFTd_cc", "d_SLM_cc", l),
       Sync,
       Kernel("ReplaceAmpsSLM_FFT", n_blocks_Phi,
              {"d_aLaserFFT", "d_SLM_cc", "d_pSLMstart_f"}, N, FALSE, l),
       Sync >>

\* for (l = 0; l < N_iterations; l++): eight operations per pass
FourierLoop(N, N_iterations) ==
    [i \in 1..(IterationsRun(N_iterations) * 8) |->
        FourierIteration(N, (i - 1) \div 8)[((i - 1) % 8) + 1]]

\* variant: no barrier between getPhases and the copy of the pattern it writes
FourierOps_NoFinalBarrier(N, N_iterations) ==
    << Sync,
       H2D("d_weights", "h_weights", N * SizeofFloat),
       Sync,
       Memset("d_FFTd_cc", memsize_SLMcc),
       Sync,
       Kernel("XYtoIndex", 1, {"d_x", "d_y", "d_spot_index"}, N, FALSE, -1),
       Sync >>
    \o FourierLoop(N, N_iterations)
    \o << Kernel("getPhases", n_blocks_Phi,
                 {"d_pSLM_uc", "d_pSLMstart_f", "d_SLM_cc", "d_LUT_coeff"}, N, FALSE, -1),
          D2H("h_weights", "d_amps", N * N_iterations * SizeofFloat),
          D2H("h_pSLM_uc", "d_pSLM_uc", memsize_SLMuc) >>

FourierOps(N, N_iterations) ==
    << Sync,
       H2D("d_weights", "h_weights", N * SizeofFloat),
       Sync,
       Memset("d_FFTd_cc", memsize_SLMcc),
       Sync,
       Kernel("XYtoIndex", 1, {"d_x", "d_y", "d_spot_index"}, N, FALSE, -1),
       Sync >>
    \o FourierLoop(N, N_iterations)
    \o << Kernel("getPhases", n_blocks_Phi,
                 {"d_pSLM_uc", "d_pSLMstart_f", "d_SLM_cc", "d_LUT_coeff"}, N, FALSE, -1),
          D2H("h_weights", "d_amps", N * N_iterations * SizeofFloat),
          Sync,
          D2H("h_pSLM_uc", "d_pSLM_uc", memsize_SLMuc) >>

\* the switch: a selector outside {0, 1, 2} runs no case
MethodOps(N, N_iterations, m) ==
    CASE m = 0 -> LensesAndPrismsOps(N)
      [] m = 1 -> FresnelOps(N, N_iterations)
      [] m = 2 -> FourierOps(N, N_iterations)
      [] OTHER -> << >>

\* variant: the frame is uploaded whether or not the hardware was enabled
UploadOps_Always == << Driver("LoadImg", "h_pSLM_uc") >>

UploadOps == IF EnableSLM_b THEN << Driver("LoadImg", "h_pSLM_uc") >> ELSE << >>

GenOps(N, N_iterations, m) ==
    SpotCopies(N) \o MethodOps(N, N_iterations, m) \o UploadOps

GenerateHologram(N_spots, N_iterations, method, faults, track) ==
    \E N \in {SpotsUsed(N_spots)}, m \in {MethodUsed(N_spots, method)} :
    \E ops \in {GenOps(N, N_iterations, m)} :
    \E failAt \in FailPoints(ops) \cap faults :
        /\ memsize_spotsf' = N * SizeofFloat
        /\ status' = StatusOf(ops, failAt, buf)
        /\ mem' = MemAfter(ops, Len(ops), "GenerateHologram", mem, buf,
                         Failed(ops, failAt, buf), track)
        /\ CUDAmessage' = Report("GenerateHologram", StatusOf(ops, failAt, buf))
        /\ call' = [NoCall EXCEPT !.fn = "GenerateHologram", !.ops = ops, !.failAt = failAt,
                                  !.N_spots = N_spots, !.N_iterations = N_iterations,
                                  !.method = method, !.N_used = N, !.methodUsed = m,
                                  !.preLeaked = leaked, !.preMem = mem]
        /\ UNCHANGED <<buf, flagVars, sizeVars, session, slm, leaked, hwAtStart>>

SpotCounts == 0..(BLOCK_SIZE + 1)
IterationCounts == 0..(MaxIterations + 1)
Methods == 0..3

----------------------------------------------------------------------------
(* GetAmps *)

GetAmpsLocals == << "d_xall", "d_yall", "d_zall", "d_amps_all" >>

\* variant: the loop stops when less than a full batch is left
RECURSIVE Batches_DropsRemainder(_, _)
Batches_DropsRemainder(N_spots_rem, offset) ==
    IF N_spots_rem >= BatchSize
    THEN << << offset, BatchSize >> >>
         \o Batches_DropsRemainder(N_spots_rem - BatchSize, offset + BatchSize)
    ELSE << >>

\* the while loop: one <<offset, N_spots>> per dispatch
RECURSIVE Batches(_, _)
Batches(N_spots_rem, offset) ==
    IF N_spots_rem > 0
    THEN << << offset, IF N_spots_rem > BatchSize THEN BatchSize ELSE N_spots_rem >> >>
         \o Batches(N_spots_rem - BatchSize, offset + BatchSize)
    ELSE << >>

\* what checkAmplitudes computes for one point and one pattern
Amp(point, pattern) == (2 * point + pattern + 1) % 5

\* block j of a dispatch reads point offset+j and writes amplitude offset+j
checkAmplitudes(pts, pattern, offset, N, out) ==
    [i \in DOMAIN out |->
        IF offset <= i - 1 /\ i - 1 < offset + N THEN Amp(pts[i], pattern) ELSE out[i]]

RECURSIVE RunBatches(_, _, _, _)
RunBatches(bs, pts, pattern, out) ==
    IF bs = << >> THEN out
    ELSE RunBatches(Tail(bs), pts, pattern,
                    checkAmplitudes(pts, pattern, Head(bs)[1], Head(bs)[2], out))

\* d_amps_all as cudaMalloc leaves it (-1: not written), then after every dispatch
AmpsResult(pts, pattern) ==
    RunBatches(Batches(Len(pts), 0), pts, pattern, [i \in 1..Len(pts) |-> -1])

BatchOps(b) ==
    << Kernel("checkAmplitudes", b[2],
              {"d_xall", "d_yall", "d_zall", "d_pSLM_uc", "d_amps_all"}, b[2], FALSE, b[1]),
       Sync >>

\* the dispatch and the barrier of every pass of the while loop
BatchLoop(bs) == [i \in 1..(Len(bs) * 2) |-> BatchOps(bs[((i - 1) \div 2) + 1])[((i - 1) % 2) + 1]]

GetAmpsOps(N_spots_all) ==
    LET bs == Batches(N_spots_all, 0)
        sz == N_spots_all * SizeofFloat
    IN  [i \in 1..4 |-> Malloc(GetAmpsLocals[i], sz)]
        \o << H2D("d_xall", "x_spots", sz), H2D("d_yall", "y_spots", sz),
              H2D("d_zall", "z_spots", sz),
              H2D("d_pSLM_uc", "h_pSLM_uc", memsize_SLMuc) >>
        \o BatchLoop(bs)
        \o << D2H("h_amps", "d_amps_all", sz) >>
        \o [i \in 1..4 |-> Free(GetAmpsLocals[i])]

GetAmps(pts, pattern, faults, track) ==
    \E bs \in {Batches(Len(pts), 0)}, ops \in {GetAmpsOps(Len(pts))} :
    \E failAt \in FailPoints(ops) \cap faults :
        /\ memsize_spotsf' = (IF bs = << >> THEN memsize_spotsf
                              ELSE bs[Len(bs)][2] * SizeofFloat)
        /\ status' = StatusOf(ops, failAt, buf)
        /\ mem' = MemAfter(ops, Len(ops), "GetAmps", mem, buf,
                         Failed(ops, failAt, buf), track)
        /\ CUDAmessage' = Report("GetAmps", StatusOf(ops, failAt, buf))
        /\ call' = [NoCall EXCEPT !.fn = "GetAmps", !.ops = ops, !.failAt = failAt,
                                  !.pts = pts, !.pattern = pattern,
                                  !.h_amps = AmpsResult(pts, pattern),
                                  !.preLeaked = leaked, !.preMem = mem]
        /\ UNCHANGED <<buf, flagVars, sizeVars, session, slm, leaked, hwAtStart>>

Patterns == {0, 1}

\* point lists of every length 0 .. 2*BatchSize + 2; a point is named by a number,
\* and neighbouring points differ
PointLists == {[i \in 1..n |-> (s + i) % 3] : n \in 0..(2 * BatchSize + 2), s \in 0..2}

----------------------------------------------------------------------------
(* Properties *)

IsCall(fn) == call.fn = fn

Min(a, b) == IF a < b THEN a ELSE b

OpIndices(ops, P(_)) == {i \in 1..Len(ops) : P(ops[i])}

Count(ops, P(_)) == Cardinality(OpIndices(ops, P))

IsKernel(o, name) == o.k = "kernel" /\ o.name = name

\* a device copy, a dispatch or a transform
TouchesDevice(o) == o.k \in {"h2d", "d2h", "d2d", "memset", "kernel", "fft"}

IsUpload(o) == o.k = "driver" /\ o.name = "LoadImg"

IsCopyOut(o) == o.k = "d2h"

IsAmplitudeCopyOut(o) == o.k = "d2h" /\ o.h = "h_weights"

\* an operation that belongs to the Fresnel or to the Fourier path only
IsIterative(o) ==
    \/ o.k \in {"d2d", "fft", "memset"}
    \/ o.k = "kernel" /\ o.name \notin {"LensesAndPrisms", "checkAmplitudes"}
    \/ o.k = "h2d" /\ o.h = "h_weights"

\* the case of the switch the operations of a call come from (3: none)
PathRun(ops) ==
    IF \E i \in 1..Len(ops) : IsKernel(ops[i], "LensesAndPrisms") THEN 0
    ELSE IF \E i \in 1..Len(ops) : ops[i].k = "d2d" THEN 1
    ELSE IF \E i \in 1..Len(ops) : IsKernel(ops[i], "XYtoIndex") THEN 2
    ELSE 3

\* the passes of the iteration loop of a call
LoopPasses(ops) ==
    Count(ops, LAMBDA o : IsKernel(o, "PropagateToSLM_Fresnel")
                          \/ IsKernel(o, "ReplaceAmpsSLM_FFT"))

\* C1: a generation call made before startCUDAandSLM or after stopCUDAandSLM returns
\* an error status and issues no device copy, no dispatch and no frame upload.
C1_GenerationNeedsSession ==
    (IsCall("GenerateHologram") /\ session # "active") =>
        /\ status # 0
        /\ \A i \in 1..Len(call.ops) :
              ~TouchesDevice(call.ops[i]) /\ ~IsUpload(call.ops[i])

\* C2: with fewer than 3 spots, whatever the selector, the call runs Lenses and
\* Prisms exactly once, runs no operation of the iterative paths, and copies out
\* exactly one row of N_spots amplitudes.
C2_SmallSetForcesDirect ==
    (IsCall("GenerateHologram") /\ call.N_spots < 3) =>
        /\ Count(call.ops, LAMBDA o : IsKernel(o, "LensesAndPrisms")) = 1
        /\ Count(call.ops, IsIterative) = 0
        /\ LoopPasses(call.ops) = 0
        /\ Count(call.ops, IsAmplitudeCopyOut) = 1
        /\ \A i \in 1..Len(call.ops) :
              IsAmplitudeCopyOut(call.ops[i]) => call.ops[i].n = call.N_spots * SizeofFloat

C2_Witness ==
    /\ IsCall("GenerateHologram") /\ session = "active"
    /\ call.N_spots = 2 /\ call.method = 2 /\ call.N_iterations = 2
    /\ PathRun(call.ops) = 0

\* C3 as claimed: with more than BLOCK_SIZE spots the call runs Lenses and Prisms
\* whatever the selector.
C3_OverflowForcesDirect ==
    (IsCall("GenerateHologram") /\ call.N_spots > BLOCK_SIZE) => PathRun(call.ops) = 0

\* C3 as amended: with more than BLOCK_SIZE spots the count is cut to BLOCK_SIZE and
\* the selector is left as requested: the call runs the case the caller selected
\* (none for a selector outside 0..2); only fewer than 3 spots force method 0.
C3_OverflowKeepsMethod ==
    IsCall("GenerateHologram") =>
        /\ call.N_spots > BLOCK_SIZE =>
              PathRun(call.ops) = (IF call.method \in 0..2 THEN call.method ELSE 3)
        /\ (PathRun(call.ops) = 0 /\ call.method # 0) => call.N_spots < 3

C3_Witness ==
    /\ IsCall("GenerateHologram") /\ session = "active"
    /\ call.N_spots > BLOCK_SIZE /\ call.method = 1 /\ call.N_iterations = 1
    /\ PathRun(call.ops) = 1

\* C4: every generation call uses min(N_spots, BLOCK_SIZE) spots: it is not turned
\* away, it copies that many entries of x, y, z and I from the start of the caller's
\* arrays, every dispatch is given that count, and every row copied out has that
\* many amplitudes.
C4_SpotCountTruncated ==
    IsCall("GenerateHologram") =>
        LET N == Min(call.N_spots, BLOCK_SIZE)
            rows == IF PathRun(call.ops) = 0 THEN 1 ELSE call.N_iterations
        IN  /\ \A p \in SpotBufs :
                  Count(call.ops, LAMBDA o : o.k = "h2d" /\ o.b = {p}
                                             /\ o.n = N * SizeofFloat) = 1
            /\ \A i \in 1..Len(call.ops) :
                  /\ call.ops[i].k = "kernel" => call.ops[i].n = N
                  /\ (call.ops[i].k = "h2d" /\ call.ops[i].b \subseteq SpotBufs) =>
                        call.ops[i].n = N * SizeofFloat
                  /\ IsAmplitudeCopyOut(call.ops[i]) =>
                        call.ops[i].n = N * rows * SizeofFloat
            /\ call.method \in 0..2 => PathRun(call.ops) # 3

C4_Witness ==
    /\ IsCall("GenerateHologram") /\ session = "active"
    /\ call.N_spots = BLOCK_SIZE + 1 /\ call.method = 2 /\ call.N_iterations = 2
    /\ Count(call.ops, LAMBDA o : o.k = "kernel" /\ o.n = BLOCK_SIZE) > 2

\* C5: a Fresnel or Fourier call of a session runs at most MaxIterations passes, and
\* the amplitudes it copies out fit the amplitude history startCUDAandSLM allocated.
C5_IterationsBounded ==
    (IsCall("GenerateHologram") /\ session = "active" /\ PathRun(call.ops) \in {1, 2}) =>
        /\ LoopPasses(call.ops) <= MaxIterations
        /\ \A i \in 1..Len(call.ops) :
              IsAmplitudeCopyOut(call.ops[i]) =>
                  call.ops[i].n <= BLOCK_SIZE * MaxIterations * SizeofFloat

\* C6: after stopCUDAandSLM no device buffer is live and the lookup-table,
\* aberration-map and polynomial-table pointers are NULL.
C6_StopReleasesEverything ==
    IsCall("stopCUDAandSLM") =>
        /\ \A p \in Buffers : buf[p] # "live"
        /\ \A p \in OptBufs : buf[p] = "null"

\* C7: in a session, after a Corrections call in which no device operation failed
\* (entered with the aberration pointer NULL or resident), the aberration map is
\* resident exactly when aberration correction is enabled; enabling with a resident
\* map allocates nothing, no call allocates twice, disabling frees a resident map
\* exactly once and leaves the pointer NULL, and no allocation is orphaned.
C7_AberrationMapResidency ==
    (IsCall("Corrections") /\ session = "active" /\ status = 0 /\ call.preAb # "freed") =>
        LET ab == "d_AberrationCorr_f"
            allocs == Count(call.ops, LAMBDA o : o.k = "malloc" /\ o.b = {ab})
            frees == Count(call.ops, LAMBDA o : o.k = "free" /\ o.b = {ab})
        IN  /\ UseAberrationCorr_b = call.UseAberrationCorr
            /\ UseAberrationCorr_b <=> buf[ab] = "live"
            /\ ~UseAberrationCorr_b => buf[ab] = "null"
            /\ allocs = (IF call.UseAberrationCorr /\ call.preAb = "null" THEN 1 ELSE 0)
            /\ frees = (IF ~call.UseAberrationCorr /\ call.preAb = "live" THEN 1 ELSE 0)
            /\ leaked = call.preLeaked

C7_Witness ==
    /\ IsCall("Corrections") /\ session = "active" /\ status = 0
    /\ call.preAb = "live" /\ call.UseAberrationCorr
    /\ UseAberrationCorr_b /\ buf["d_AberrationCorr_f"] = "live"

\* the coefficient count of each polynomial order, as documented
CoeffCountOfOrder(order) ==
    CASE order = 3 -> 20 [] order = 4 -> 35 [] order = 5 -> 56
      [] order = 6 -> 84 [] order = 7 -> 120

\* C8: a Corrections call with an order outside 3..7 leaves polynomial correction
\* off whatever was requested, leaves no coefficient table (a resident one is freed
\* once) and returns no error unless a device operation failed; with an order in
\* 3..7 and the correction requested, the count stored and the count copied are the
\* table entry of the order.  So an enabled polynomial correction always has one of
\* the five counts.
C8_PolynomialOrderGate ==
    /\ UseLUTPol_b => N_LUTPolCoeff \in {20, 35, 56, 84, 120}
    /\ IsCall("Corrections") =>
          LET pol == "d_LUTPolCoeff_f"
              frees == Count(call.ops, LAMBDA o : o.k = "free" /\ o.b = {pol})
          IN  /\ call.PolOrder \notin 3..7 =>
                    /\ ~UseLUTPol_b
                    /\ buf[pol] = "null"
                    /\ frees = (IF call.prePol # "null" THEN 1 ELSE 0)
                    /\ Count(call.ops, LAMBDA o : o.k \in {"malloc", "h2d"} /\ o.b = {pol}) = 0
                    /\ call.failAt = 0 => status = 0
              /\ (call.PolOrder \in 3..7 /\ call.UseLUTPol) =>
                    /\ N_LUTPolCoeff = CoeffCountOfOrder(call.PolOrder)
                    /\ Count(call.ops, LAMBDA o : o.k = "h2d" /\ o.b = {pol}
                               /\ o.n = CoeffCountOfOrder(call.PolOrder) * SizeofFloat) = 1
                    /\ call.failAt = 0 => UseLUTPol_b

C8_Witness ==
    /\ IsCall("Corrections") /\ session = "active"
    /\ call.PolOrder = 8 /\ call.UseLUTPol /\ call.prePol = "live"
    /\ status = 0 /\ ~UseLUTPol_b /\ buf["d_LUTPolCoeff_f"] = "null"

\* C9: in a generation call of a session, no dispatch, no transform, no copy to the
\* caller's buffers and no frame upload is issued after the operation that failed.
C9_FailureIsTerminal ==
    (IsCall("GenerateHologram") /\ session = "active" /\ call.failAt # 0) =>
        \A i \in 1..Len(call.ops) :
            i > call.failAt =>
                /\ call.ops[i].k \notin {"kernel", "fft"}
                /\ ~IsCopyOut(call.ops[i])
                /\ ~IsUpload(call.ops[i])

\* the dispatches of a GetAmps call, in order
Dispatches(ops) == SelectSeq(ops, LAMBDA o : o.k = "kernel")

CeilDiv(a, b) == (a + b - 1) \div b

\* C10: for a list of N points GetAmps issues ceil(N / BatchSize) dispatches;
\* dispatch k has min(BatchSize, N - BatchSize*k) points and reads and writes the
\* indices from BatchSize*k on, so the slices are disjoint and cover 0 .. N-1; every
\* point gets its amplitude, and the result for 2*BatchSize + 1 points is the
\* results of three queries of BatchSize, BatchSize and 1 points put end to end.
C10_BatchesPartitionThePoints ==
    IsCall("GetAmps") =>
        LET N == Len(call.pts)
            ds == Dispatches(call.ops)
        IN  /\ Len(ds) = CeilDiv(N, BatchSize)
            /\ \A k \in 1..Len(ds) :
                  /\ ds[k].l = BatchSize * (k - 1)
                  /\ ds[k].n = Min(BatchSize, N - BatchSize * (k - 1))
                  /\ ds[k].g = ds[k].n
            /\ \A j, k \in 1..Len(ds) :
                  j # k => {i \in 0..(N - 1) : ds[j].l <= i /\ i < ds[j].l + ds[j].n}
                           \cap {i \in 0..(N - 1) : ds[k].l <= i /\ i < ds[k].l + ds[k].n} = {}
            /\ \A i \in 0..(N - 1) : \E k \in 1..Len(ds) : ds[k].l <= i /\ i < ds[k].l + ds[k].n
            /\ \A k \in 1..Len(ds) : ds[k].l >= 0 /\ ds[k].n >= 1 /\ ds[k].l + ds[k].n <= N
            /\ call.h_amps = [i \in 1..N |-> Amp(call.pts[i], call.pattern)]
            /\ N = 2 * BatchSize + 1 =>
                  call.h_amps =
                      AmpsResult(SubSeq(call.pts, 1, BatchSize), call.pattern)
                      \o AmpsResult(SubSeq(call.pts, BatchSize + 1, 2 * BatchSize), call.pattern)
                      \o AmpsResult(SubSeq(call.pts, 2 * BatchSize + 1, N), call.pattern)

C10_Witness ==
    /\ IsCall("GetAmps") /\ session = "active" /\ status = 0
    /\ Len(call.pts) = 2 * BatchSize + 1
    /\ Len(Dispatches(call.ops)) = 3

\* C11: an amplitude query of a session leaves the session state as it found it: the contents
\* of the session buffers (the quantized pattern buffer among them), the pointers,
\* the size globals and the correction state are the same after the call as before.
C11_QueryLeavesSessionUnchanged ==
    [][(session = "active" /\ call'.fn = "GetAmps") =>
          /\ mem' = mem
          /\ buf' = buf
          /\ memsize_spotsf' = memsize_spotsf
          /\ sizeVars' = sizeVars
          /\ flagVars' = flagVars]_vars

\* C12: a generation call uploads a frame exactly when the last startCUDAandSLM
\* enabled the hardware; when it did not (or none ran), startCUDAandSLM,
\* GenerateHologram and stopCUDAandSLM call no driver function.
C12_UploadOnlyWhenEnabled ==
    /\ IsCall("GenerateHologram") =>
          (Count(call.ops, IsUpload) = (IF hwAtStart = "enabled" THEN 1 ELSE 0))
    /\ (call.fn \in {"startCUDAandSLM", "GenerateHologram", "stopCUDAandSLM"}
        /\ hwAtStart # "enabled") =>
          Count(call.ops, LAMBDA o : o.k = "driver") = 0

C12_Witness ==
    /\ IsCall("GenerateHologram") /\ session = "active" /\ status = 0
    /\ hwAtStart = "enabled"
    /\ Count(call.ops, IsUpload) = 1

\* the contents right after the Seed step of a Fresnel call: after its last
\* device-to-device copy
Seeded ==
    LET last == CHOOSE i \in 0..Len(call.ops) :
                    /\ i # 0 => call.ops[i].k = "d2d"
                    /\ \A j \in (i + 1)..Len(call.ops) : call.ops[j].k # "d2d"
    IN  MemAfter(call.ops, last, "GenerateHologram", call.preMem, buf, {}, ContentBufs)

StartWeights == <<"host", "startCUDAandSLM", "h_weights">>

CallerWeights == <<"host", "GenerateHologram", "h_weights">>

FresnelField == <<"dev", "GenerateHologram", "PropagateToSLM_Fresnel">>

DeviceWork(ops) == SelectSeq(ops, LAMBDA o : o.k \in {"kernel", "fft"})

\* C14: a Fresnel call with iteration count N issues 2N dispatches: Forward
\* (PropagateToSpotPositions_Fresnel) and Back (PropagateToSLM_Fresnel) in turn,
\* Forward first, pass j carrying iteration j-1; the quantize flag is set in the
\* N-th Back and in no other dispatch (with N = 0 there is no dispatch, so none
\* quantizes); the pattern and the amplitudes are copied out after the last dispatch.
C14_FresnelAlternation ==
    (IsCall("GenerateHologram") /\ PathRun(call.ops) = 1) =>
        LET N == call.N_iterations
            ks == DeviceWork(call.ops)
            lastK == IF N = 0 THEN 0
                     ELSE CHOOSE i \in 1..Len(call.ops) :
                              /\ call.ops[i].k = "kernel"
                              /\ \A j \in (i + 1)..Len(call.ops) : call.ops[j].k # "kernel"
        IN  /\ Len(ks) = 2 * N
            /\ \A j \in 1..N :
                  /\ ks[2 * j - 1].name = "PropagateToSpotPositions_Fresnel"
                  /\ ks[2 * j].name = "PropagateToSLM_Fresnel"
                  /\ ks[2 * j - 1].l = j - 1 /\ ks[2 * j].l = j - 1
                  /\ ~ks[2 * j - 1].q
                  /\ ks[2 * j].q <=> (j = N)
            /\ Count(call.ops, LAMBDA o : o.q) = (IF N >= 1 THEN 1 ELSE 0)
            /\ Count(call.ops, LAMBDA o : o.k = "d2h" /\ o.h = "h_pSLM_uc"
                                          /\ o.b = {"d_pSLM_uc"}) = 1
            /\ \A i \in 1..Len(call.ops) : IsCopyOut(call.ops[i]) => i > lastK

C14_Witness ==
    /\ IsCall("GenerateHologram") /\ session = "active" /\ status = 0
    /\ PathRun(call.ops) = 1 /\ call.N_iterations = MaxIterations
    /\ Len(DeviceWork(call.ops)) = 2 * MaxIterations
    /\ DeviceWork(call.ops)[2 * MaxIterations].q

\* C15: in every generation call, between a dispatch or transform and the next
\* dispatch or transform there is a barrier, and between a dispatch or transform
\* and a later copy to the host of a buffer it may have written there is a barrier;
\* every dispatch and transform is followed by a barrier.
C15_BarrierAfterEveryDispatch ==
    IsCall("GenerateHologram") =>
        \A i \in 1..Len(call.ops) :
            call.ops[i].k \in {"kernel", "fft"} =>
                /\ \E s \in (i + 1)..Len(call.ops) : call.ops[s].k = "sync"
                /\ \A j \in (i + 1)..Len(call.ops) :
                      (\/ call.ops[j].k \in {"kernel", "fft"}
                       \/ /\ call.ops[j].k \in {"d2h", "d2d"}
                          /\ call.ops[j].b \cap call.ops[i].w # {}) =>
                          \E s \in (i + 1)..(j - 1) : call.ops[s].k = "sync"

C15_Witness ==
    /\ IsCall("GenerateHologram") /\ session = "active" /\ status = 0
    /\ PathRun(call.ops) = 2 /\ call.N_iterations = MaxIterations
    /\ Count(call.ops, LAMBDA o : IsKernel(o, "getPhases")) = 1
    /\ Count(call.ops, LAMBDA o : o.k = "fft") = 2 * MaxIterations

\* the dispatches that are given the reference field and alpha_RPC
IsRestricting(o) ==
    IsKernel(o, "PropagateToSLM_Fresnel") \/ IsKernel(o, "ReplaceAmpsSLM_FFT")

\* the device buffers an operation may read
Reads(o) ==
    CASE o.k \in {"kernel", "d2h"} -> o.b
      [] o.k \in {"fft", "d2d"} -> o.b \ o.w
      [] OTHER -> {}

\* C16: the phase restriction of every iteration of the Fresnel and of the Fourier
\* path is taken against the reference field d_pSLMstart_f, and that field is a
\* snapshot taken in the same call: it is written in the call before the first
\* dispatch that restricts against it.
C16_ReferenceIsThisCallsSnapshot ==
    (IsCall("GenerateHologram") /\ session = "active" /\ status = 0) =>
        \A i \in 1..Len(call.ops) :
            IsRestricting(call.ops[i]) =>
                /\ "d_pSLMstart_f" \in call.ops[i].b
                /\ \E j \in 1..(i - 1) : "d_pSLMstart_f" \in call.ops[j].w

\* C17: in a session, every optional correction whose flag is set has its device
\* buffer resident, so no dispatch is given a set flag and an absent buffer.
C17_EnabledCorrectionIsResident ==
    session = "active" =>
        /\ ApplyLUT_b => buf["d_LUT_uc"] = "live"
        /\ UseAberrationCorr_b => buf["d_AberrationCorr_f"] = "live"
        /\ UseLUTPol_b => buf["d_LUTPolCoeff_f"] = "live"

\* C18: a generation call that uploads a frame has, before the upload, written the
\* pattern in a dispatch of this call and copied it to the caller's buffer.
C18_UploadedFrameIsFresh ==
    (IsCall("GenerateHologram") /\ session = "active" /\ status = 0
     /\ Count(call.ops, IsUpload) > 0) =>
        \E i, j, k \in 1..Len(call.ops) :
            /\ i < j /\ j < k
            /\ call.ops[i].k = "kernel" /\ "d_pSLM_uc" \in call.ops[i].w
            /\ IsKernel(call.ops[i], "PropagateToSLM_Fresnel") => call.ops[i].q
            /\ call.ops[j].k = "d2h" /\ call.ops[j].h = "h_pSLM_uc"
            /\ call.ops[j].b = {"d_pSLM_uc"}
            /\ IsUpload(call.ops[k])

\* C19: a Fourier call of one iteration or more reads nothing an earlier call left: the modulator-plane
\* field d_SLM_cc and the reference field d_pSLMstart_f are written in the call
\* before the first operation of the call that reads them.
C19_FourierReadsOnlyWhatItWrote ==
    (IsCall("GenerateHologram") /\ session = "active" /\ status = 0
     /\ PathRun(call.ops) = 2 /\ LoopPasses(call.ops) >= 1) =>
        \A i \in 1..Len(call.ops) :
            \A p \in Reads(call.ops[i]) \cap {"d_SLM_cc", "d_pSLMstart_f"} :
                \E j \in 1..(i - 1) : p \in call.ops[j].w

\* C20: the message buffer holds the message of the last failure only, and the
\* text with its terminating 0 fits the 100 characters of the buffer.
C20_MessageIsLastFailureOnly ==
    /\ Len(CUDAmessage) <= 1
    /\ ~Overrun(CUDAmessage)
    /\ (call.fn # "none" /\ status # 0) => CUDAmessage = << call.fn >>

----------------------------------------------------------------------------
(* Specifications.  Spec is the life cycle of a session, with every entry  *)
(* point on a few inputs; SpecCorr, SpecGen and SpecAmps give one entry    *)
(* point all of its inputs and every failure point; SpecMem follows the     *)
(* contents of the session buffers and SpecMsg the message buffer.         *)

\* the failures the environment may inject: in Spec none; in
\* SpecCorr any operation of Corrections; in SpecGen the first copy or the first
\* dispatch of GenerateHologram; in SpecAmps the first copy of GetAmps; in SpecMsg
\* the first operation of any call
Faults == {0, 1}

AnyFault == Nat

GenFaults == {0, 1, 5}

AmpsFaults == {0, 5}

Next ==
    \/ \E e \in BOOLEAN, r \in BOOLEAN : startCUDAandSLM(e, r, {0}, {})
    \/ stopCUDAandSLM({0})
    \/ \E a \in BOOLEAN, l \in BOOLEAN, p \in BOOLEAN, o \in {2, 5} :
          Corrections(a, l, p, o, {0}, "live")
    \/ \E n \in {1, BLOCK_SIZE}, m \in {0, 1} : GenerateHologram(n, 1, m, {0}, {})
    \/ GetAmps(<<0, 1, 1>>, 1, {0}, {})

Spec == Init /\ [][Next]_vars

NextCorr ==
    \/ startCUDAandSLM(FALSE, FALSE, {0}, {})
    \/ stopCUDAandSLM({0})
    \/ \E a \in BOOLEAN, p \in BOOLEAN, o \in PolOrders, z \in {"null", "live"} :
          Corrections(a, FALSE, p, o, AnyFault, z)

SpecCorr == Init /\ [][NextCorr]_vars

NextGen ==
    \/ \E e \in BOOLEAN : startCUDAandSLM(e, FALSE, {0}, {})
    \/ stopCUDAandSLM({0})
    \/ \E n \in SpotCounts, i \in IterationCounts, m \in Methods :
          GenerateHologram(n, i, m, GenFaults, {})

SpecGen == Init /\ [][NextGen]_vars

NextAmps ==
    \/ startCUDAandSLM(FALSE, FALSE, {0}, {})
    \/ \E pts \in PointLists, pat \in Patterns : GetAmps(pts, pat, AmpsFaults, {})

SpecAmps == Init /\ [][NextAmps]_vars

\* the contents of the session buffers over generation and query calls
NextMem ==
    \/ startCUDAandSLM(FALSE, FALSE, {0}, ContentBufs)
    \/ stopCUDAandSLM({0})
    \/ \E i \in {0, 1}, m \in {0, 1, 2} : GenerateHologram(BLOCK_SIZE, i, m, {0}, ContentBufs)
    \/ GetAmps(<<0, 1, 1>>, 1, {0}, ContentBufs)

SpecMem == Init /\ [][NextMem]_vars

\* the message buffer over failing calls of every entry point
NextMsg ==
    \/ startCUDAandSLM(FALSE, FALSE, Faults, {})
    \/ stopCUDAandSLM(Faults)
    \/ Corrections(TRUE, FALSE, FALSE, 2, Faults, "live")
    \/ GenerateHologram(1, 1, 0, Faults, {})
    \/ GetAmps(<<0>>, 1, Faults, {})

SpecMsg == Init /\ [][NextMsg]_vars
====
